---------------------------- MODULE Spec2Model ----------------------------
(***************************************************************************)
(* Model of docs/generate_rst.py: the nim jsondoc -> Sphinx RST generator.  *)
(*                                                                         *)
(* Text is modelled as a sequence of one-character strings, so that the    *)
(* regular-expression substitutions of _html_to_rst and _clean_code are    *)
(* computed character by character, as re.sub computes them (leftmost,     *)
(* non-overlapping matches, scanning left to right).                       *)
(*                                                                         *)
(* Four specifications share the module:                                   *)
(*   SpecClean  applies _clean_code to a signature                         *)
(*   SpecHtml   applies _html_to_rst once and then to its own output       *)
(*   SpecPage   applies _make_module_rst to a bundle                       *)
(*   Spec       runs main() over the configured MODULES                    *)
(***************************************************************************)
EXTENDS Integers, Sequences, FiniteSets, TLC

VARIABLES
    pc,            \* main(): position in the function
    idx,           \* main(): 1-based index of the module the loop is at
    generated,     \* main(): list of module names whose page was written
    errors,        \* main(): list of module names recorded as failed
    data,          \* main(): the value json.loads returned for this module
    rst_content,   \* main(): the page _make_module_rst returned
    files,         \* docs/api/<module>.rst files on disk: module -> lines
    indexFile,     \* docs/api/index.rst on disk (<<>> while not written)
    indexWrites,   \* number of times index.rst has been written
    exitStatus,    \* value main() returned (-1 while it has not)
    reported,      \* names printed on the "Failed modules:" line
    exporterOk,    \* history: modules whose exporter run really succeeded
    exporterBad,   \* history: modules whose exporter run really failed
    jsonLoaded,    \* history: modules whose JSON file was read and parsed
    jsonBad,       \* history: modules whose JSON file failed to read/parse
    code,          \* _clean_code: the argument
    cleaned,       \* _clean_code: the value returned
    html,          \* _html_to_rst: the argument
    once,          \* _html_to_rst(html)
    twice,         \* _html_to_rst(_html_to_rst(html))
    bundle,        \* _make_module_rst: the data argument
    page,          \* _make_module_rst: the value returned (or the raise)
    phase          \* position of the pure-function harnesses

mainVars == <<pc, idx, generated, errors, data, rst_content, files, indexFile,
              indexWrites, exitStatus, reported, exporterOk, exporterBad,
              jsonLoaded, jsonBad>>
cleanVars == <<code, cleaned>>
htmlVars == <<html, once, twice>>
pageVars == <<bundle, page>>
vars == <<mainVars, cleanVars, htmlVars, pageVars, phase>>

\* Bounds of the model.
MaxCodePieces == 5
MaxHtmlPieces == 4
MaxEntries == 3

\* A dictionary key that is not present (dict.get's default applies).
Absent == "<absent>"

---------------------------------------------------------------------------
\* Text helpers.

SeqsUpTo(S, n) == UNION {[1..k -> S] : k \in 0..n}

RECURSIVE Flatten(_)
Flatten(ss) == IF ss = <<>> THEN <<>> ELSE Head(ss) \o Flatten(Tail(ss))

\* least / greatest element of a set of positions, 0 for the empty set
Min0(S) == IF S = {} THEN 0 ELSE CHOOSE j \in S : \A h \in S : j <= h
Max0(S) == IF S = {} THEN 0 ELSE CHOOSE j \in S : \A h \in S : j >= h

\* the position n past r, when there is a position r
After(r, n) == IF r = 0 THEN 0 ELSE r + n

\* str.isspace / the regex class \s, over the characters the model uses
IsSpace(c) == c \in {" ", "\n", "\t"}

\* s[i:].startswith(pat)
StartsWithAt(s, i, pat) ==
    /\ i >= 1
    /\ i + Len(pat) - 1 <= Len(s)
    /\ \A k \in 1..Len(pat) : s[i + k - 1] = pat[k]

\* s[i..j], empty when j < i
Slice(s, i, j) == IF j < i THEN <<>> ELSE SubSeq(s, i, j)

\* str.find(pat, i): least j >= i at which pat occurs in s, 0 when none
FindFrom(s, pat, i) == Min0({j \in i..Len(s) : StartsWithAt(s, j, pat)})

\* greatest j >= i at which pat occurs in s, 0 when none
FindLastFrom(s, pat, i) == Max0({j \in i..Len(s) : StartsWithAt(s, j, pat)})

\* index of the first non-space character at or after i (Len(s)+1 when none)
RECURSIVE SkipSpace(_, _)
SkipSpace(s, i) ==
    IF i <= Len(s) /\ IsSpace(s[i]) THEN SkipSpace(s, i + 1) ELSE i

\* s cut to the span of the positions in keep
CutTo(s, keep) == IF keep = {} THEN <<>> ELSE Slice(s, Min0(keep), Max0(keep))

\* str.strip()
Strip(s) == CutTo(s, {i \in 1..Len(s) : ~IsSpace(s[i])})

\* str.replace(old, new)
RECURSIVE ReplaceFrom(_, _, _, _)
ReplaceFrom(s, i, old, new) ==
    IF i > Len(s) THEN <<>>
    ELSE IF StartsWithAt(s, i, old)
         THEN new \o ReplaceFrom(s, i + Len(old), old, new)
         ELSE <<s[i]>> \o ReplaceFrom(s, i + 1, old, new)

Replace(s, old, new) == ReplaceFrom(s, 1, old, new)

---------------------------------------------------------------------------
\* _clean_code

\* _PRAGMA_RE = \s*\{\..*?\.\}  with DOTALL, tried at position p: the index
\* just after the match, 0 when the pattern does not match at p.  \s* takes
\* the whole run of spaces up to q (giving some back cannot help: the next
\* character would be a space, not a brace); .*? stops at the first ".}".
PragmaBlockEndGreedy(s, q) ==
    IF StartsWithAt(s, q, <<"{", ".">>)
    THEN After(FindLastFrom(s, <<".", "}">>, q + 2), 2)
    ELSE 0

PragmaBlockEnd(s, q) ==
    IF StartsWithAt(s, q, <<"{", ".">>)
    THEN After(FindFrom(s, <<".", "}">>, q + 2), 2)
    ELSE 0

PragmaMatchEnd(s, p) == PragmaBlockEnd(s, SkipSpace(s, p))

\* _PRAGMA_RE.sub("", code), scanning from position p; e is where the match
\* tried at p ends
RECURSIVE PragmaSub(_, _), PragmaSubAt(_, _, _)
PragmaSubAt(s, p, e) ==
    IF e # 0 THEN PragmaSub(s, e) ELSE <<s[p]>> \o PragmaSub(s, p + 1)

PragmaSub(s, p) ==
    IF p > Len(s) THEN <<>> ELSE PragmaSubAt(s, p, PragmaMatchEnd(s, p))

CleanCode(c) == Strip(PragmaSub(c, 1))

---------------------------------------------------------------------------
\* _html_to_rst

\* <[^>]+> tried at position i, r being the first ">" after i: the index
\* just after the match, 0 when there is none
TagEnd(i, r) == IF r > i + 1 THEN r + 1 ELSE 0

TagMatchEnd(s, i) ==
    IF i <= Len(s) /\ s[i] = "<" THEN TagEnd(i, FindFrom(s, <<">">>, i + 1)) ELSE 0

\* re.sub(r"<[^>]+>", "", s), scanning from i; e is where the match at i ends
RECURSIVE StripTagsFrom(_, _), StripTagsAt(_, _, _)
StripTagsAt(s, i, e) ==
    IF e # 0 THEN StripTagsFrom(s, e) ELSE <<s[i]>> \o StripTagsFrom(s, i + 1)

StripTagsFrom(s, i) ==
    IF i > Len(s) THEN <<>> ELSE StripTagsAt(s, i, TagMatchEnd(s, i))

StripTags(s) == StripTagsFrom(s, 1)

\* the rest of an opening tag from position j, after its name: ">" (attrs
\* FALSE) or "[^>]*>" (attrs TRUE); index after the match, 0 when none
OpenTail(s, j, attrs) ==
    IF attrs THEN After(FindFrom(s, <<">">>, j), 1)
    ELSE IF StartsWithAt(s, j, <<">">>) THEN j + 1 ELSE 0

\* An opening tag pattern "<name>" or "<name[^>]*>" tried at i for each name
\* of opens: index after the match, 0 when none
OpenMatchEnd(s, i, opens, attrs) ==
    Min0({OpenTail(s, i + Len(o), attrs) :
             o \in {o \in opens : StartsWithAt(s, i, o)}} \ {0})

\* (.*?) followed by one of the closing tags, from position j: the start of
\* the closing tag, 0 when none.  Without DOTALL "." does not match "\n".
CloseStart(s, j, closes, dotall) ==
    Min0({r \in j..Len(s) :
             /\ \E c \in closes : StartsWithAt(s, r, c)
             /\ dotall \/ \A k \in j..(r - 1) : s[k] # "\n"})

CloseLen(s, r, closes) ==
    Len(CHOOSE c \in closes : StartsWithAt(s, r, c))

\* group(1) as the replacement uses it
Group(rule, inner) == IF rule.strip THEN StripTags(inner) ELSE inner

\* re.sub of  OPEN(.*?)CLOSE  by  pre + group(1) + post, scanning from i;
\* j is where the opening tag tried at i ends, r where the closing tag starts
RECURSIVE SubRuleFrom(_, _, _), SubRuleOpen(_, _, _, _), SubRuleClose(_, _, _, _, _)
SubRuleClose(s, i, rule, j, r) ==
    IF r = 0 THEN <<s[i]>> \o SubRuleFrom(s, i + 1, rule)
    ELSE rule.pre \o Group(rule, Slice(s, j, r - 1)) \o rule.post
         \o SubRuleFrom(s, r + CloseLen(s, r, rule.closes), rule)

SubRuleOpen(s, i, rule, j) ==
    IF j = 0 THEN <<s[i]>> \o SubRuleFrom(s, i + 1, rule)
    ELSE SubRuleClose(s, i, rule, j, CloseStart(s, j, rule.closes, rule.dotall))

SubRuleFrom(s, i, rule) ==
    IF i > Len(s) THEN <<>>
    ELSE SubRuleOpen(s, i, rule, OpenMatchEnd(s, i, rule.opens, rule.attrs))

SubRule(s, rule) == SubRuleFrom(s, 1, rule)

\* re.sub of a lone opening tag pattern by rep, scanning from i; e is where
\* the match tried at i ends
RECURSIVE SubOpenFrom(_, _, _, _, _), SubOpenAt(_, _, _, _, _, _)
SubOpenAt(s, i, opens, attrs, rep, e) ==
    IF e # 0 THEN rep \o SubOpenFrom(s, e, opens, attrs, rep)
    ELSE <<s[i]>> \o SubOpenFrom(s, i + 1, opens, attrs, rep)

SubOpenFrom(s, i, opens, attrs, rep) ==
    IF i > Len(s) THEN <<>>
    ELSE SubOpenAt(s, i, opens, attrs, rep, OpenMatchEnd(s, i, opens, attrs))

\* the characters " and ` (each one element of a text, like every other
\* character)
DQuote == "dquote"
BackTick == "backtick"

\* <tt[^>]*>(.*?)</tt>  ->  two backticks, TEXT, two backticks
RuleTt == [opens |-> {<<"<", "t", "t">>}, attrs |-> TRUE,
           closes |-> {<<"<", "/", "t", "t", ">">>}, dotall |-> TRUE,
           pre |-> <<BackTick, BackTick>>, post |-> <<BackTick, BackTick>>, strip |-> TRUE]

\* <p>(.*?)</p>  ->  \1\n\n
RuleP == [opens |-> {<<"<", "p">>}, attrs |-> FALSE,
          closes |-> {<<"<", "/", "p", ">">>}, dotall |-> TRUE,
          pre |-> <<>>, post |-> <<"\n", "\n">>, strip |-> FALSE]

\* <(?:b|strong)>(.*?)</(?:b|strong)>  ->  **\1**
RuleBold == [opens |-> {<<"<", "b">>, <<"<", "s", "t", "r", "o", "n", "g">>},
             attrs |-> FALSE,
             closes |-> {<<"<", "/", "b", ">">>,
                         <<"<", "/", "s", "t", "r", "o", "n", "g", ">">>},
             dotall |-> FALSE,
             pre |-> <<"*", "*">>, post |-> <<"*", "*">>, strip |-> FALSE]

\* <(?:em|i)>(.*?)</(?:em|i)>  ->  *\1*
RuleItalic == [opens |-> {<<"<", "e", "m">>, <<"<", "i">>}, attrs |-> FALSE,
               closes |-> {<<"<", "/", "e", "m", ">">>, <<"<", "/", "i", ">">>},
               dotall |-> FALSE,
               pre |-> <<"*">>, post |-> <<"*">>, strip |-> FALSE]

\* <li>(.*?)</li>  ->  \n- \1
RuleLi == [opens |-> {<<"<", "l", "i">>}, attrs |-> FALSE,
           closes |-> {<<"<", "/", "l", "i", ">">>}, dotall |-> TRUE,
           pre |-> <<"\n", "-", " ">>, post |-> <<>>, strip |-> FALSE]

\* the substitutions of the code-span, paragraph, bold and italic tags, in
\* the order the code applies them
InlineMarkup(h) == SubRule(SubRule(SubRule(SubRule(h, RuleTt), RuleP), RuleBold), RuleItalic)

\* the three substitutions of the list tags: <ul[^>]*>, </ul>, <li>(.*?)</li>
ListMarkup(t) ==
    SubRule(Replace(SubOpenFrom(t, 1, {<<"<", "u", "l">>}, TRUE, <<"\n">>),
                    <<"<", "/", "u", "l", ">">>, <<"\n">>),
            RuleLi)

\* the chain of str.replace calls decoding the HTML entities, in the order
\* the code applies them
DecodeEntities(s) ==
    Replace(Replace(Replace(Replace(Replace(Replace(s,
        <<"&", "l", "t", ";">>, <<"<">>),
        <<"&", "g", "t", ";">>, <<">">>),
        <<"&", "a", "m", "p", ";">>, <<"&">>),
        <<"&", "q", "u", "o", "t", ";">>, <<DQuote>>),
        <<"&", "#", "3", "9", ";">>, <<"'">>),
        <<"&", "n", "b", "s", "p", ";">>, <<" ">>)

\* the end of the run of "\n" that starts at i: the first position after it
RECURSIVE RunEnd(_, _)
RunEnd(s, i) == IF i <= Len(s) /\ s[i] = "\n" THEN RunEnd(s, i + 1) ELSE i

\* \n{3} in place of \n{3,}: the match takes three line breaks only
CollapseMatchEndExactlyThree(s, i) ==
    IF StartsWithAt(s, i, <<"\n", "\n", "\n">>) THEN i + 3 ELSE 0

\* \n{3,} tried at i: the index just after the match, 0 when none
CollapseMatchEnd(s, i) ==
    IF StartsWithAt(s, i, <<"\n", "\n", "\n">>) THEN RunEnd(s, i) ELSE 0

\* re.sub(r"\n{3,}", "\n\n", s), scanning from i; e is where the match at i ends
RECURSIVE CollapseFrom(_, _), CollapseAt(_, _, _)
CollapseAt(s, i, e) ==
    IF e # 0 THEN <<"\n", "\n">> \o CollapseFrom(s, e)
    ELSE <<s[i]>> \o CollapseFrom(s, i + 1)

CollapseFrom(s, i) ==
    IF i > Len(s) THEN <<>> ELSE CollapseAt(s, i, CollapseMatchEnd(s, i))

CollapseBlankLines(s) == CollapseFrom(s, 1)

HtmlToRst(h) ==
    IF h = <<>> THEN <<>>
    ELSE Strip(CollapseBlankLines(DecodeEntities(StripTags(ListMarkup(InlineMarkup(h))))))

---------------------------------------------------------------------------
\* _make_module_rst

\* _KIND_ORDER
KIND_ORDER == <<"skType", "skConst", "skProc", "skFunc", "skMethod",
                "skIterator", "skTemplate", "skMacro", "skLet", "skVar">>

\* _KIND_LABELS
KIND_LABELS == [skType |-> "Types", skConst |-> "Constants",
                skProc |-> "Procedures", skFunc |-> "Functions",
                skMethod |-> "Methods", skIterator |-> "Iterators",
                skTemplate |-> "Templates", skMacro |-> "Macros",
                skLet |-> "Lets", skVar |-> "Variables"]

\* _KIND_LABELS.get(kind, kind)
KindLabel(kind) == IF kind \in DOMAIN KIND_LABELS THEN KIND_LABELS[kind] ELSE kind

\* One element of the list `lines`.  t says what the element is, v holds
\* its text when the text is built from names, text holds it when it is
\* converted text (a character sequence), n is the width of a rule line and
\* src is the index in data["entries"] of the entry the element was emitted
\* for (0: none).  The page returned is "\n".join(lines) + "\n"; the model
\* keeps the list.
Line(t, v, text, n, src) == [t |-> t, v |-> v, text |-> text, n |-> n, src |-> src]
Blank(src) == Line("blank", "", <<>>, 0, src)
RuleLine(ch, n, src) == Line("rule", ch, <<>>, n, src)

\* entry.get("type", "skProc")
EntryKind(e) == IF e.type = Absent THEN "skProc" ELSE e.type

\* the grouping loop appending at the front of each group
RECURSIVE ByKindUpToReversed(_, _, _)
ByKindUpToReversed(es, kind, n) ==
    IF n = 0 THEN <<>>
    ELSE IF EntryKind(es[n]) = kind
         THEN <<n>> \o ByKindUpToReversed(es, kind, n - 1)
         ELSE ByKindUpToReversed(es, kind, n - 1)

ByKindReversed(es, kind) == ByKindUpToReversed(es, kind, Len(es))

\* by_kind[kind] after the grouping loop has seen the first n entries: the
\* entries of that kind (as indices into the entries list), each appended
RECURSIVE ByKindUpTo(_, _, _)
ByKindUpTo(es, kind, n) ==
    IF n = 0 THEN <<>>
    ELSE IF EntryKind(es[n]) = kind
         THEN Append(ByKindUpTo(es, kind, n - 1), n)
         ELSE ByKindUpTo(es, kind, n - 1)

\* by_kind.get(kind)
ByKind(es, kind) == ByKindUpTo(es, kind, Len(es))

\* str.splitlines() of stripped text: the pieces between "\n"; nl is the
\* first "\n" of s
RECURSIVE SplitLines(_), SplitAt(_, _)
SplitAt(s, nl) ==
    IF nl = 0 THEN <<s>>
    ELSE <<Slice(s, 1, nl - 1)>> \o SplitLines(Slice(s, nl + 1, Len(s)))

SplitLines(s) == IF s = <<>> THEN <<>> ELSE SplitAt(s, FindFrom(s, <<"\n">>, 1))

\* name_count.get(name, 0)
NameCount(nc, name) == IF name \in DOMAIN nc THEN nc[name] ELSE 0

\* f"{module_name}.{name}" / f"{module_name}.{name}.{count}"
Label(module_name, name, count) ==
    IF count = 0 THEN module_name \o "." \o name
    ELSE module_name \o "." \o name \o "." \o ToString(count)

\* name / f"{name} ({count + 1})"
Heading(name, count) ==
    IF count = 0 THEN name ELSE name \o " (" \o ToString(count + 1) \o ")"

\* f".. _{label}:"
AnchorDirective(label) == ".. _" \o label \o ":"

\* "   " + code_line for each line of the code
CodeLines(parts, src) ==
    [k \in 1..Len(parts) |-> Line("code", "", <<" ", " ", " ">> \o parts[k], 0, src)]

\* the lines the loop body appends for one entry: label and heading, then the
\* code block if the cleaned code c is not empty, then the description if
\* the converted description desc is not empty
EntryLines(label, heading, c, desc, src) ==
    << Line("anchor", AnchorDirective(label), <<>>, 0, src),
       Blank(src),
       Line("heading", heading, <<>>, 0, src),
       RuleLine("~", Len(heading), src),
       Blank(src) >>
    \o (IF c # <<>>
        THEN << Line("codeblock", ".. code-block:: nim", <<>>, 0, src), Blank(src) >>
             \o CodeLines(SplitLines(c), src) \o << Blank(src) >>
        ELSE <<>>)
    \o (IF desc # <<>> THEN << Line("desc", "", desc, 0, src), Blank(src) >> ELSE <<>>)

\* the body of the loop "for entry in entries" for entry e, seen count times
OneEntryLines(module_name, e, count, src) ==
    EntryLines(Label(module_name, e.name, count), Heading(e.name, count),
               CleanCode(e.code), HtmlToRst(e.description), src)

\* A result: the lines built, or the exception raised ("" when none).
Ok(lines) == [raised |-> "", lines |-> lines]
Raise(exc) == [raised |-> exc, lines |-> <<>>]

\* The body of "for entry in entries" for the entry at index i of the
\* entries list, from the loop state st: the exception raised so far, the
\* lines emitted so far and name_count.
EntryStep(module_name, es, i, st) ==
    IF st.raised # "" THEN st
    ELSE IF es[i].name = Absent                                  \* entry["name"]
         THEN [raised |-> "KeyError", lines |-> <<>>, nc |-> st.nc]
         ELSE [raised |-> "",
               lines |-> st.lines \o OneEntryLines(module_name, es[i],
                                                   NameCount(st.nc, es[i].name), i),
               nc |-> [n \in DOMAIN st.nc \cup {es[i].name} |->
                          IF n = es[i].name THEN NameCount(st.nc, n) + 1 ELSE st.nc[n]]]

\* "for entry in entries": the loop state after the first p entries of the
\* group, starting from st0
RECURSIVE EntryLoop(_, _, _, _, _)
EntryLoop(module_name, es, group, p, st0) ==
    IF p = 0 THEN st0
    ELSE EntryStep(module_name, es, group[p],
                   EntryLoop(module_name, es, group, p - 1, st0))

\* section heading, underline, blank
SectionLines(section) ==
    << Line("section", section, <<>>, 0, 0), RuleLine("-", Len(section), 0), Blank(0) >>

\* One pass of "for kind in _KIND_ORDER", from the result res so far, group
\* being by_kind.get(kind).  A kind without entries is skipped; name_count = {}
\* is set once per section.
Section(module_name, es, kind, res, group) ==
    IF res.raised # "" \/ group = <<>> THEN res
    ELSE EntryLoop(module_name, es, group, Len(group),
                   [raised |-> "",
                    lines |-> res.lines \o SectionLines(KindLabel(kind)),
                    nc |-> <<>>])

\* "for kind in _KIND_ORDER": the result after the first k kinds of order
RECURSIVE KindLoop(_, _, _, _, _)
KindLoop(module_name, es, order, k, res0) ==
    IF k = 0 THEN res0
    ELSE Section(module_name, es, order[k],
                 KindLoop(module_name, es, order, k - 1, res0),
                 ByKind(es, order[k]))

\* what the function hands back: the lines, or the exception
Result(st) == [raised |-> st.raised, lines |-> st.lines]

\* title block, then the module description when it is not empty
PageHead(title, module_desc) ==
    << RuleLine("=", Len(title), 0),
       Line("title", title, <<>>, 0, 0),
       RuleLine("=", Len(title), 0),
       Blank(0) >>
    \o (IF module_desc # <<>>
        THEN << Line("desc", "", module_desc, 0, 0), Blank(0) >>
        ELSE <<>>)

MakeModuleRst(module_name, title, d) ==
    IF ~d.object THEN Raise("AttributeError")               \* data.get on a non-dict
    ELSE Result(KindLoop(module_name, d.entries, KIND_ORDER, Len(KIND_ORDER),
                         [raised |-> "",
                          lines |-> PageHead(title, HtmlToRst(d.moduleDescription)),
                          nc |-> <<>>]))

\* the fixed lines of the index page, up to the blank line that ends the
\* toctree options
IndexHead ==
    << RuleLine("=", 13, 0),
       Line("title", "API Reference", <<>>, 0, 0),
       RuleLine("=", 13, 0),
       Blank(0),
       Line("text", "Complete reference for all exported symbols.", <<>>, 0, 0),
       \* (the literal markers around "nim jsondoc" are left out of the text)
       Line("text", "Generated automatically from source docstrings via nim jsondoc.", <<>>, 0, 0),
       Blank(0),
       Line("toctree", ".. toctree::", <<>>, 0, 0),
       Line("option", "   :maxdepth: 1", <<>>, 0, 0),
       Line("option", "   :caption: Modules", <<>>, 0, 0),
       Blank(0) >>

\* the navigation lines in the reverse of the order given
NavLinesReversed(gen) ==
    [k \in 1..Len(gen) |-> Line("nav", "   " \o gen[Len(gen) + 1 - k], <<>>, 0, 0)]

\* for name in generated: lines.append(f"   {name}")
NavLines(gen) ==
    [k \in 1..Len(gen) |-> Line("nav", "   " \o gen[k], <<>>, 0, 0)]

\* _make_api_index
MakeApiIndex(gen) == IndexHead \o NavLines(gen) \o << Blank(0) >>

---------------------------------------------------------------------------
\* main

\* MODULES: (module_name, human_title); the source path is module_name.nim
MODULES == << [name |-> "nimpulseqgui", title |-> "nimpulseqgui - Top-level API"],
              [name |-> "definitions",  title |-> "definitions - Core types"],
              [name |-> "sequenceexe",  title |-> "sequenceexe - CLI entry point"],
              [name |-> "sequencegui",  title |-> "sequencegui - Main GUI window"],
              [name |-> "propertyedit", title |-> "propertyedit - Property editors"],
              [name |-> "io",           title |-> "io - Protocol persistence"] >>

\* What can happen when _run_jsondoc runs the exporter:
\*   ok               returncode 0 and the output file exists
\*   nonzero_exit     returncode != 0
\*   no_output_file   returncode 0, output file missing
\*   nim_not_found    subprocess.run raises FileNotFoundError
\*   permission_error subprocess.run (or mkdir) raises another OSError
ExporterOutcomes == {"ok", "nonzero_exit", "no_output_file", "nim_not_found",
                     "permission_error"}

\* _run_jsondoc: "True", "False", or "raise" when the exception escapes it
RunJsondocNoExistsCheck(outcome) ==
    CASE outcome \in {"ok", "no_output_file"} -> "True"
      [] outcome \in {"nonzero_exit", "nim_not_found"} -> "False"
      [] OTHER -> "raise"

RunJsondoc(outcome) ==
    CASE outcome = "ok" -> "True"
      [] outcome = "nonzero_exit" -> "False"
      [] outcome = "no_output_file" -> "False"
      [] outcome = "nim_not_found" -> "False"      \* except FileNotFoundError
      [] OTHER -> "raise"

\* What can happen at json.loads(json_file.read_text()):
\*   ok                    a value is returned
\*   json_decode_error     json.JSONDecodeError
\*   os_error              OSError reading the file
\*   unicode_decode_error  UnicodeDecodeError (a ValueError, not an OSError)
LoadOutcomes == {"ok", "json_decode_error", "os_error", "unicode_decode_error"}

\* except (json.JSONDecodeError, OSError)
LoadCaught(outcome) == outcome \in {"json_decode_error", "os_error"}

\* Values json.loads can return.
SampleEntry == [name |-> "add", type |-> "skProc",
                code |-> <<"p", " ", "{", ".", "i", ".", "}">>,
                description |-> <<"<", "p", ">", "d", "<", "/", "p", ">">>]
GoodData == [object |-> TRUE, moduleDescription |-> <<"<", "b", ">", "m", "<", "/", "b", ">">>,
             entries |-> <<SampleEntry>>]
EmptyData == [object |-> TRUE, moduleDescription |-> <<>>, entries |-> <<>>]
\* JSON that parses but is not an object, such as []
ArrayData == [object |-> FALSE, moduleDescription |-> <<>>, entries |-> <<>>]
\* an entry without a "name" key
NamelessData == [object |-> TRUE, moduleDescription |-> <<>>,
                 entries |-> <<[SampleEntry EXCEPT !.name = Absent]>>]
SampleData == {GoodData, EmptyData, ArrayData, NamelessData}

NoData == [object |-> FALSE, moduleDescription |-> <<>>, entries |-> <<>>]

\* return 1 if errors else 0
MainReturnAlwaysZero(errs) == 0

MainReturn(errs) == IF errs # <<>> THEN 1 ELSE 0

CurrentModule == MODULES[idx]

historyVars == <<exporterOk, exporterBad, jsonLoaded, jsonBad>>
pureVars == <<cleanVars, htmlVars, pageVars, phase>>

\* if not _run_jsondoc(nim_file, json_file): errors.append(...); continue
StepRunJsondoc ==
    /\ pc = "loop"
    /\ idx <= Len(MODULES)
    /\ \E outcome \in ExporterOutcomes :
          /\ IF outcome = "ok"
             THEN /\ exporterOk' = exporterOk \cup {CurrentModule.name}
                  /\ exporterBad' = exporterBad
             ELSE /\ exporterBad' = exporterBad \cup {CurrentModule.name}
                  /\ exporterOk' = exporterOk
          /\ CASE RunJsondoc(outcome) = "True" ->
                    /\ pc' = "load"
                    /\ UNCHANGED <<idx, errors>>
               [] RunJsondoc(outcome) = "False" ->
                    /\ errors' = Append(errors, CurrentModule.name)
                    /\ idx' = idx + 1
                    /\ pc' = "loop"
               [] OTHER ->
                    /\ pc' = "crashed"
                    /\ UNCHANGED <<idx, errors>>
    /\ UNCHANGED <<generated, data, rst_content, files, indexFile, indexWrites,
                   exitStatus, reported, jsonLoaded, jsonBad, pureVars>>

\* try: data = json.loads(json_file.read_text()) except ...: errors.append; continue
StepLoadJson ==
    /\ pc = "load"
    /\ \E outcome \in LoadOutcomes :
          IF outcome = "ok"
          THEN /\ \E d \in SampleData : data' = d
               /\ jsonLoaded' = jsonLoaded \cup {CurrentModule.name}
               /\ pc' = "assemble"
               /\ UNCHANGED <<idx, errors, jsonBad>>
          ELSE /\ jsonBad' = jsonBad \cup {CurrentModule.name}
               /\ IF LoadCaught(outcome)
                  THEN /\ errors' = Append(errors, CurrentModule.name)
                       /\ idx' = idx + 1
                       /\ pc' = "loop"
                  ELSE /\ pc' = "crashed"
                       /\ UNCHANGED <<idx, errors>>
               /\ UNCHANGED <<data, jsonLoaded>>
    /\ UNCHANGED <<generated, rst_content, files, indexFile, indexWrites,
                   exitStatus, reported, exporterOk, exporterBad, pureVars>>

\* rst_content = _make_module_rst(module_name, title, data)
StepMakeRst ==
    /\ pc = "assemble"
    /\ LET r == MakeModuleRst(CurrentModule.name, CurrentModule.title, data)
       IN  IF r.raised = ""
           THEN /\ rst_content' = r.lines
                /\ pc' = "write"
           ELSE /\ pc' = "crashed"          \* nothing catches it
                /\ UNCHANGED rst_content
    /\ UNCHANGED <<idx, generated, errors, data, files, indexFile, indexWrites,
                   exitStatus, reported, historyVars, pureVars>>

\* rst_file.write_text(rst_content); generated.append(module_name)
StepWritePage ==
    /\ pc = "write"
    /\ \E written \in BOOLEAN :
          IF written
          THEN /\ files' = [m \in DOMAIN files \cup {CurrentModule.name} |->
                               IF m = CurrentModule.name THEN rst_content ELSE files[m]]
               /\ generated' = Append(generated, CurrentModule.name)
               /\ idx' = idx + 1
               /\ pc' = "loop"
          ELSE /\ pc' = "crashed"           \* OSError from write_text
               /\ UNCHANGED <<files, generated, idx>>
    /\ UNCHANGED <<errors, data, rst_content, indexFile, indexWrites,
                   exitStatus, reported, historyVars, pureVars>>

\* index_rst.write_text(_make_api_index(generated))
StepWriteIndex ==
    /\ pc = "loop"
    /\ idx > Len(MODULES)
    /\ \E written \in BOOLEAN :
          IF written
          THEN /\ indexFile' = MakeApiIndex(generated)
               /\ indexWrites' = indexWrites + 1
               /\ pc' = "return"
          ELSE /\ pc' = "crashed"
               /\ UNCHANGED <<indexFile, indexWrites>>
    /\ UNCHANGED <<idx, generated, errors, data, rst_content, files,
                   exitStatus, reported, historyVars, pureVars>>

\* if errors: print("Failed modules: ..."); return 1 / return 0
StepReturn ==
    /\ pc = "return"
    /\ reported' = errors
    /\ exitStatus' = MainReturn(errors)
    /\ pc' = "done"
    /\ UNCHANGED <<idx, generated, errors, data, rst_content, files, indexFile,
                   indexWrites, historyVars, pureVars>>

MainStart ==
    /\ pc = "loop"
    /\ idx = 1
    /\ generated = <<>>
    /\ errors = <<>>
    /\ data = NoData
    /\ rst_content = <<>>
    /\ files = <<>>
    /\ indexFile = <<>>
    /\ indexWrites = 0
    /\ exitStatus = -1
    /\ reported = <<>>
    /\ exporterOk = {}
    /\ exporterBad = {}
    /\ jsonLoaded = {}
    /\ jsonBad = {}

\* main() is not running
MainIdle ==
    /\ pc = "idle"
    /\ idx = 1
    /\ generated = <<>>
    /\ errors = <<>>
    /\ data = NoData
    /\ rst_content = <<>>
    /\ files = <<>>
    /\ indexFile = <<>>
    /\ indexWrites = 0
    /\ exitStatus = -1
    /\ reported = <<>>
    /\ exporterOk = {}
    /\ exporterBad = {}
    /\ jsonLoaded = {}
    /\ jsonBad = {}

NoPage == [raised |-> "", lines |-> <<>>]

CleanIdle == code = <<>> /\ cleaned = <<>>
HtmlIdle == html = <<>> /\ once = <<>> /\ twice = <<>>
PageIdle == bundle = NoData /\ page = NoPage

Init == MainStart /\ CleanIdle /\ HtmlIdle /\ PageIdle /\ phase = "idle"

Next ==
    \/ StepRunJsondoc
    \/ StepLoadJson
    \/ StepMakeRst
    \/ StepWritePage
    \/ StepWriteIndex
    \/ StepReturn

Spec == Init /\ [][Next]_vars

---------------------------------------------------------------------------
\* _clean_code applied to a signature

Chars_p == <<"p">>
Chars_space == <<" ">>
Chars_newline == <<"\n">>
Chars_pragma == <<"{", ".", "i", ".", "}">>
Chars_open == <<"{", ".">>
Chars_close == <<".", "}">>

\* Signatures are built from these pieces.
CodePieces == {Chars_p, Chars_space, Chars_newline, Chars_pragma, Chars_open, Chars_close}

CodeInputs == {Flatten(ps) : ps \in SeqsUpTo(CodePieces, MaxCodePieces)}

InitClean ==
    /\ MainIdle /\ HtmlIdle /\ PageIdle
    /\ code \in CodeInputs
    /\ cleaned = <<>>
    /\ phase = "input"

CallCleanCode ==
    /\ phase = "input"
    /\ cleaned' = CleanCode(code)
    /\ phase' = "done"
    /\ UNCHANGED <<code, mainVars, htmlVars, pageVars>>

NextClean == CallCleanCode

SpecClean == InitClean /\ [][NextClean]_vars

---------------------------------------------------------------------------
\* _html_to_rst applied to a fragment, and then to its own result

HtmlPieces == { <<"&", "a", "m", "p", ";">>,
                <<"&", "l", "t", ";">>,
                <<"l", "t", ";">>,
                <<"b">>,
                <<"<", "b", ">">>,
                <<"<", "/", "b", ">">>,
                <<"\n", "\n">>,
                <<" ">> }

HtmlInputs == {Flatten(ps) : ps \in SeqsUpTo(HtmlPieces, MaxHtmlPieces)}

InitHtml ==
    /\ MainIdle /\ CleanIdle /\ PageIdle
    /\ html \in HtmlInputs
    /\ once = <<>>
    /\ twice = <<>>
    /\ phase = "input"

CallHtmlToRst ==
    /\ phase = "input"
    /\ once' = HtmlToRst(html)
    /\ phase' = "once"
    /\ UNCHANGED <<html, twice, mainVars, cleanVars, pageVars>>

CallHtmlToRstAgain ==
    /\ phase = "once"
    /\ twice' = HtmlToRst(once)
    /\ phase' = "twice"
    /\ UNCHANGED <<html, once, mainVars, cleanVars, pageVars>>

NextHtml == CallHtmlToRst \/ CallHtmlToRstAgain

SpecHtml == InitHtml /\ [][NextHtml]_vars

---------------------------------------------------------------------------
\* _make_module_rst applied to a bundle

PageModule == "mathutil"
PageTitle == "mathutil - Math helpers"

Names == {"foo", "bar"}
\* "skConverter" is a kind tag nim jsondoc emits that _KIND_ORDER lacks;
\* Absent is an entry without a "type" key
InputKinds == {"skType", "skProc", "skConverter", Absent}
\* code and description of an entry: both empty, or a signature with a
\* pragma and a one-paragraph description
InputDocs == { [code |-> <<>>, description |-> <<>>],
               [code |-> <<"p", " ", "{", ".", "i", ".", "}">>,
                description |-> <<"<", "p", ">", "d", "<", "/", "p", ">">>] }

InputEntries == {[name |-> n, type |-> k, code |-> d.code, description |-> d.description] :
                    n \in Names, k \in InputKinds, d \in InputDocs}

InitPage ==
    /\ MainIdle /\ CleanIdle /\ HtmlIdle
    /\ \E es \in SeqsUpTo(InputEntries, MaxEntries) :
          bundle = [object |-> TRUE, moduleDescription |-> <<>>, entries |-> es]
    /\ page = NoPage
    /\ phase = "input"

CallMakeModuleRst ==
    /\ phase = "input"
    /\ page' = MakeModuleRst(PageModule, PageTitle, bundle)
    /\ phase' = "done"
    /\ UNCHANGED <<bundle, mainVars, cleanVars, htmlVars>>

NextPage == CallMakeModuleRst

SpecPage == InitPage /\ [][NextPage]_vars

---------------------------------------------------------------------------
\* Properties of the page _make_module_rst returns (checked under SpecPage)

Range(q) == {q[k] : k \in 1..Len(q)}

OfType(lines, t) == SelectSeq(lines, LAMBDA l : l.t = t)

PageDone == phase = "done" /\ page.raised = ""

\* the entry an emitted line was emitted for
EntryOf(l) == bundle.entries[l.src]

\* number of anchors before position k of the anchor list A whose entry has
\* the same name as the entry of A[k]
EarlierSameName(A, k) == Cardinality({j \in 1..(k - 1) : EntryOf(A[j]).name = EntryOf(A[k]).name})

\* the ten kind tags the generator knows
KnownKinds == {"skType", "skConst", "skProc", "skFunc", "skMethod",
               "skIterator", "skTemplate", "skMacro", "skLet", "skVar"}

\* every entry of the bundle carries one of the known kind tags
AllKindsKnown == \A i \in 1..Len(bundle.entries) : bundle.entries[i].type \in KnownKinds

\* C1: on a module page made from entries of known kinds no two anchor
\* directives carry the same label, also when the entries that share a name
\* have different kinds.
AnchorsUniqueOnPage ==
    (PageDone /\ AllKindsKnown) =>
        \A i, j \in 1..Len(OfType(page.lines, "anchor")) :
            i # j => OfType(page.lines, "anchor")[i].v # OfType(page.lines, "anchor")[j].v

\* C5: a bundle with an entry of an unknown kind does not crash the page
\* assembly, and the entry is on the page (the code has no diagnostic to
\* reject it with): it is never silently left out.
UnknownKindNotDropped ==
    phase = "done" =>
        /\ page.raised = ""
        /\ \A i \in 1..Len(bundle.entries) :
              bundle.entries[i].type \notin KnownKinds \cup {Absent}
                  => \E k \in 1..Len(page.lines) : page.lines[k].src = i

\* C6: in page order, the entry preceded by n entries of the same name N has
\* anchor <module>.N and heading N when n = 0, and anchor <module>.N.n and
\* heading "N (n+1)" when n >= 1, whatever the kinds.
AnchorsCountPerPage ==
    PageDone =>
        \A k \in 1..Len(OfType(page.lines, "anchor")) :
            /\ OfType(page.lines, "anchor")[k].v =
                  (IF EarlierSameName(OfType(page.lines, "anchor"), k) = 0
                   THEN ".. _" \o PageModule \o "." \o EntryOf(OfType(page.lines, "anchor")[k]).name \o ":"
                   ELSE ".. _" \o PageModule \o "." \o EntryOf(OfType(page.lines, "anchor")[k]).name
                        \o "." \o ToString(EarlierSameName(OfType(page.lines, "anchor"), k)) \o ":")
            /\ OfType(page.lines, "heading")[k].v =
                  (IF EarlierSameName(OfType(page.lines, "anchor"), k) = 0
                   THEN EntryOf(OfType(page.lines, "anchor")[k]).name
                   ELSE EntryOf(OfType(page.lines, "anchor")[k]).name \o " ("
                        \o ToString(EarlierSameName(OfType(page.lines, "anchor"), k) + 1) \o ")")

\* the fixed order of the sections, as kind tags and as section labels
SectionOrder == <<"skType", "skConst", "skProc", "skFunc", "skMethod",
                  "skIterator", "skTemplate", "skMacro", "skLet", "skVar">>
SectionNames == <<"Types", "Constants", "Procedures", "Functions", "Methods",
                  "Iterators", "Templates", "Macros", "Lets", "Variables">>

\* position of an entry's kind in the fixed order (an entry without a kind
\* tag counts as a procedure)
KindRank(e) ==
    CHOOSE r \in 1..Len(SectionOrder) :
        SectionOrder[r] = (IF e.type = Absent THEN "skProc" ELSE e.type)

\* entry i of the bundle comes before entry j on the page
ComesBefore(i, j) ==
    \/ KindRank(bundle.entries[i]) < KindRank(bundle.entries[j])
    \/ /\ KindRank(bundle.entries[i]) = KindRank(bundle.entries[j])
       /\ i < j

\* C7: of two emitted entries, one is emitted before the other exactly when
\* its kind comes first in the fixed kind order, or the kinds are the same and
\* it comes first in the input; a section heading is emitted at most once, and
\* only for a kind that has an entry.
PageOrder ==
    PageDone =>
        /\ \A a, b \in 1..Len(OfType(page.lines, "anchor")) :
              a # b => ((a < b) <=> ComesBefore(OfType(page.lines, "anchor")[a].src,
                                                OfType(page.lines, "anchor")[b].src))
        /\ \A a, b \in 1..Len(OfType(page.lines, "section")) :
              a # b => OfType(page.lines, "section")[a].v # OfType(page.lines, "section")[b].v
        /\ \A a \in 1..Len(OfType(page.lines, "section")) :
              \E r \in 1..Len(SectionNames) :
                  /\ SectionNames[r] = OfType(page.lines, "section")[a].v
                  /\ \E i \in 1..Len(bundle.entries) :
                        /\ bundle.entries[i].type \in KnownKinds \cup {Absent}
                        /\ KindRank(bundle.entries[i]) = r

\* a page on which the sections reorder the input (a later entry is emitted
\* first) and one section holds two entries
PageOrderWitness ==
    /\ PageDone
    /\ Len(OfType(page.lines, "section")) = 2
    /\ \E a, b \in 1..Len(OfType(page.lines, "anchor")) :
          a < b /\ OfType(page.lines, "anchor")[a].src > OfType(page.lines, "anchor")[b].src
    /\ \E a, b \in 1..Len(OfType(page.lines, "anchor")) :
          /\ a < b
          /\ EntryKind(EntryOf(OfType(page.lines, "anchor")[a]))
                = EntryKind(EntryOf(OfType(page.lines, "anchor")[b]))

---------------------------------------------------------------------------
\* Properties of _clean_code (checked under SpecClean)

\* a '{.' ... '.}' block starts at position a of s and ends at position b: the
\* block runs to the first '.}' after its opening '{.'
IsBlock(s, a, b) ==
    /\ StartsWithAt(s, a, <<"{", ".">>)
    /\ b >= a + 3
    /\ StartsWithAt(s, b - 1, <<".", "}">>)
    /\ \A r \in (a + 2)..(b - 2) : ~StartsWithAt(s, r, <<".", "}">>)

\* the end of the block starting at a, 0 when no block starts there
BlockEndAt(s, a) == Min0({b \in a..Len(s) : IsBlock(s, a, b)})

\* the blocks of s from position i on, left to right, as <<first, last>>
RECURSIVE BlocksFrom(_, _), BlocksAt(_, _, _)
BlocksAt(s, i, b) ==
    IF b # 0 THEN {<<i, b>>} \cup BlocksFrom(s, b + 1) ELSE BlocksFrom(s, i + 1)

BlocksFrom(s, i) == IF i > Len(s) THEN {} ELSE BlocksAt(s, i, BlockEndAt(s, i))

\* position i lies in one of the blocks
InBlock(blocks, i) == \E blk \in blocks : blk[1] <= i /\ i <= blk[2]

\* position i of s is in the run of whitespace that ends where a block starts
BeforeBlock(s, blocks, i) ==
    \E blk \in blocks : i < blk[1] /\ \A k \in i..(blk[1] - 1) : IsSpace(s[k])

\* s without the characters at the positions in gone
RECURSIVE WithoutFrom(_, _, _)
WithoutFrom(s, i, gone) ==
    IF i > Len(s) THEN <<>>
    ELSE IF i \in gone THEN WithoutFrom(s, i + 1, gone)
         ELSE <<s[i]>> \o WithoutFrom(s, i + 1, gone)

\* s without its blocks
WithoutBlocks(s, blocks) ==
    WithoutFrom(s, 1, {i \in 1..Len(s) : InBlock(blocks, i)})

\* s without its blocks and without the whitespace before each block
WithoutBlocksAndSpaceBefore(s, blocks) ==
    WithoutFrom(s, 1, {i \in 1..Len(s) : InBlock(blocks, i) \/ BeforeBlock(s, blocks, i)})

\* C8 as stated: _clean_code returns the input without the characters of its
\* '{.' ... '.}' blocks, trimmed at both ends, and removes nothing else.
CleanRemovesOnlyBlocks ==
    phase = "done" => cleaned = Strip(WithoutBlocks(code, BlocksFrom(code, 1)))

\* C8 as amended: _clean_code returns the input without the characters of its
\* '{.' ... '.}' blocks and without the whitespace that directly precedes each
\* block, trimmed at both ends, and removes nothing else.
CleanRemovesBlocksAndSpaceBefore ==
    phase = "done" =>
        cleaned = Strip(WithoutBlocksAndSpaceBefore(code, BlocksFrom(code, 1)))

\* the signature has two blocks, one of them after whitespace that follows
\* code, and code after the last block
TwoBlocksInCode(s, blocks) ==
    /\ Cardinality(blocks) = 2
    /\ \E blk \in blocks : blk[1] > 2 /\ IsSpace(s[blk[1] - 1]) /\ ~IsSpace(s[1])
    /\ ~InBlock(blocks, 1)
    /\ ~InBlock(blocks, Len(s))
    /\ ~IsSpace(s[Len(s)])

CleanWitness ==
    /\ phase = "done"
    /\ code # <<>>
    /\ TwoBlocksInCode(code, BlocksFrom(code, 1))

---------------------------------------------------------------------------
\* Properties of _html_to_rst (checked under SpecHtml)

\* x contains a tag: "<", one or more characters other than ">", then ">"
HasTag(x) ==
    \E i, j \in 1..Len(x) :
        /\ x[i] = "<"
        /\ x[j] = ">"
        /\ j > i + 1
        /\ \A k \in (i + 1)..(j - 1) : x[k] # ">"

\* the character entities the converter decodes
Entities == { <<"&", "l", "t", ";">>, <<"&", "g", "t", ";">>,
              <<"&", "a", "m", "p", ";">>, <<"&", "q", "u", "o", "t", ";">>,
              <<"&", "#", "3", "9", ";">>, <<"&", "n", "b", "s", "p", ";">> }

HasEntity(x) == \E i \in 1..Len(x) : \E e \in Entities : StartsWithAt(x, i, e)

\* C9 as stated: converting the conversion of a text without tags changes
\* nothing, also when the text holds character entities.
IdempotentOnTagFree ==
    (phase = "twice" /\ ~HasTag(html)) => twice = once

\* C9 as amended: converting the conversion of a text without tags and
\* without character entities changes nothing.
IdempotentOnPlainText ==
    (phase = "twice" /\ ~HasTag(html) /\ ~HasEntity(html)) => twice = once

\* a plain text that the conversion changes (blank lines collapsed, ends
\* trimmed), converted twice
IdempotentWitness ==
    /\ phase = "twice"
    /\ ~HasTag(html)
    /\ ~HasEntity(html)
    /\ once # html
    /\ once # <<>>
    /\ Len(once) + 2 < Len(html)

---------------------------------------------------------------------------
\* Properties of main (checked under Spec)

NoDuplicates(q) == \A i, j \in 1..Len(q) : i # j => q[i] # q[j]

\* the names of the configured modules that are in S, in configured order
RECURSIVE ConfiguredIn(_, _)
ConfiguredIn(S, k) ==
    IF k > Len(MODULES) THEN <<>>
    ELSE IF MODULES[k].name \in S
         THEN <<MODULES[k].name>> \o ConfiguredIn(S, k + 1)
         ELSE ConfiguredIn(S, k + 1)

\* modules whose exporter run succeeded, whose JSON was loaded and whose page
\* file is on disk
Succeeded == (exporterOk \cap jsonLoaded) \cap DOMAIN files

\* C2: when main returns, it returns 0 exactly when no module was recorded
\* as failed and 1 otherwise; every module whose exporter run or JSON load
\* failed is then in the reported list.
ExitStatusTellsFailure ==
    pc = "done" =>
        /\ exitStatus \in {0, 1}
        /\ exitStatus = 0 <=> errors = <<>>
        /\ exitStatus = 0 <=> (exporterBad \cup jsonBad) = {}
        /\ (exporterBad \cup jsonBad) \subseteq Range(reported)

\* main has returned 1 after an exporter failure, a load failure and a
\* written page
ExitStatusWitness ==
    /\ pc = "done"
    /\ exitStatus = 1
    /\ exporterBad # {}
    /\ jsonBad # {}
    /\ generated # <<>>

\* C3: no exception escapes the per-module step of main; a failure of
\* assembling the page from the parsed data is caught and the run goes on.
AssemblyFailureCaught ==
    ~ /\ pc = "crashed"
      /\ idx <= Len(MODULES)
      /\ CurrentModule.name \in jsonLoaded
      /\ MakeModuleRst(CurrentModule.name, CurrentModule.title, data).raised # ""

\* the names on the navigation lines of an index page
NavNames(lines) == [k \in 1..Len(OfType(lines, "nav")) |-> OfType(lines, "nav")[k].v]

\* C4: the index page is written at most once and only after every
\* configured module has been processed, it has been written when main
\* returns, and its navigation list is exactly the succeeded modules in
\* configured order (empty when every module failed).
IndexListsSucceeded ==
    /\ indexWrites <= 1
    /\ pc = "done" => indexWrites = 1
    /\ indexWrites = 0 => indexFile = <<>>
    /\ indexWrites = 1 =>
          /\ idx > Len(MODULES)
          /\ NavNames(indexFile) =
                [k \in 1..Len(ConfiguredIn(Succeeded, 1)) |->
                    "   " \o ConfiguredIn(Succeeded, 1)[k]]
          /\ Range(errors) \cap Succeeded = {}
          /\ Len(indexFile) = 12 + Len(ConfiguredIn(Succeeded, 1))

\* the index has been written after a run with two succeeded and two failed
\* modules
IndexWitness ==
    /\ indexWrites = 1
    /\ Len(generated) >= 2
    /\ Len(errors) >= 2

\* C10: during the module loop the succeeded and the failed list are
\* disjoint, hold no module twice, together hold exactly the modules
\* processed so far, each in configured order; a module in the succeeded
\* list had its exporter run succeed, its JSON loaded and its page written.
LoopListsInv ==
    /\ Range(generated) \cap Range(errors) = {}
    /\ NoDuplicates(generated)
    /\ NoDuplicates(errors)
    /\ Range(generated) \cup Range(errors) = {MODULES[k].name : k \in 1..(idx - 1)}
    /\ generated = ConfiguredIn(Range(generated), 1)
    /\ errors = ConfiguredIn(Range(errors), 1)
    /\ \A m \in Range(generated) :
          m \in exporterOk /\ m \in jsonLoaded /\ m \in DOMAIN files

\* in the middle of the loop, about to write a page, with two modules in
\* each list
LoopListsWitness ==
    /\ pc = "write"
    /\ Len(generated) >= 2
    /\ Len(errors) >= 2

=============================================================================
